---- MODULE Spec2Model ----
(***************************************************************************)
(* Model of the Undergraduate Assistant front end:                         *)
(*   - ApiService            (frontend/src/services/api.ts)                *)
(*   - App                   (frontend/src/types/index.ts, lines 43-143)   *)
(*   - ProfessorDisplay      (unnamed/part_000)                            *)
(*   - UserInfoForm          (frontend/src/components/UserInfoForm.tsx)    *)
(*                                                                         *)
(* The front end's specifications share the variables:                     *)
(*   SpecApi   every ApiService method applied to every modelled HTTP      *)
(*             outcome;                                                    *)
(*   SpecApp   the App page: submit, settle of a pending request, back,    *)
(*             retry, with ProfessorDisplay deciding which buttons exist;  *)
(*             the form is reduced to the UserInfo it submits;             *)
(*   SpecForm  one mounted UserInfoForm under a parent that records        *)
(*             whether onSubmit was called;                                *)
(*   SpecTags  the state updaters of the two remove handlers applied to    *)
(*             any duplicate-free tag list and any string;                 *)
(*   SpecAuto  the research input and its dropdown, white space typed;     *)
(*   SpecTemplates  the template modal of templates/generate-email.html,   *)
(*             its GET /get_templates requests answered in any order.      *)
(*                                                                         *)
(* Text the user types (tags, research areas) is a sequence of one-letter  *)
(* strings so that trim, toLowerCase and includes are computed.  Names,    *)
(* majors and error messages are only tested for emptiness or copied, and  *)
(* are TLA+ strings.                                                       *)
(***************************************************************************)
EXTENDS Integers, Sequences, FiniteSets, TLC

VARIABLES
    \* ---- App (types/index.ts 54-57) ----
    state,          \* 'form' | 'loading' | 'results' | 'error'
    professors,     \* ProfessorInfo[]
    error,          \* string
    userInfo,       \* UserInfo | null
    requests,       \* pending handleUserSubmit invocations (POST /prof_info)
    \* ---- UserInfoForm (UserInfoForm.tsx 13-25) ----
    formData,
    currentInterest,
    currentSkill,
    availableResearchAreas,
    filteredResearchAreas,
    showResearchDropdown,
    loadingResearchAreas,
    fetchPending,   \* the GET /research-areas promise of the mount effect
    \* ---- template modal (templates/generate-email.html 197-210) ----
    modalOpen,       \* #template-modal and #modal-overlay are shown
    templateOptions, \* the option values of #template-select, in order
    templateSelected,\* $("#template-select").val(), "" when it has no option
    templateContent, \* $("#template-content").val()
    pendingGets,     \* GET /get_templates requests not yet answered
    lastUpload,      \* the last POST /upload_template
    \* ---- observation ----
    lastCall,       \* the last settled ApiService call: outcome and result
    lastSubmitted,  \* the UserInfo the form last passed to onSubmit
    lastOp          \* the last handler that ran, with what it was given

appVars  == <<state, professors, error, userInfo, requests>>
formVars == <<formData, currentInterest, currentSkill, availableResearchAreas,
              filteredResearchAreas, showResearchDropdown,
              loadingResearchAreas, fetchPending>>
tmplVars == <<modalOpen, templateOptions, templateSelected, templateContent,
              pendingGets, lastUpload>>
obsVars  == <<lastCall, lastSubmitted, lastOp>>
vars     == <<appVars, formVars, tmplVars, obsVars>>

Range(s) == {s[i] : i \in 1..Len(s)}

(***************************************************************************)
(* Bounds                                                                  *)
(***************************************************************************)
MaxRecs == 2        \* longest recommendations list a response carries
MaxInterests == 2   \* research interests the form is filled with
MaxSkills == 2      \* skills the form is filled with
MaxList == 3        \* longest tag list the updaters are applied to

(***************************************************************************)
(* HTTP outcomes                                                           *)
(***************************************************************************)
Statuses == {200, 201, 400, 500}

Details == {"bad input", ""}

ProfessorPool ==
    { [name |-> "Prof A",
       research_interests |-> << <<"a">>, <<"b">>, <<"c">>, <<"d">>,
                                 <<"e">>, <<"f">> >>],
      [name |-> "Prof B",
       research_interests |-> << <<"a">>, <<"b">>, <<"c">>, <<"d">>,
                                 <<"e">> >>],
      [name |-> "Prof C",
       research_interests |-> << <<"b">>, <<"a">> >>] }

RecLists == UNION {[1..n -> ProfessorPool] : n \in 0..MaxRecs}

NoBody == [kind |-> "unparsable", hasDetail |-> FALSE, detail |-> "",
           hasRecs |-> FALSE, recommendations |-> <<>>, match_count |-> 0,
           hasAreas |-> FALSE, research_areas |-> <<>>]

\* What response.json() can produce: a rejection (kind "unparsable"), the
\* JSON value null, or an object that may carry detail and recommendations.
Bodies ==
    {NoBody, [NoBody EXCEPT !.kind = "null"]}
    \cup {[NoBody EXCEPT !.kind = "object", !.hasDetail = TRUE, !.detail = d] :
             d \in Details}
    \cup {[NoBody EXCEPT !.kind = "object"]}
    \cup {[NoBody EXCEPT !.kind = "object", !.hasRecs = TRUE,
                         !.recommendations = r, !.match_count = m] :
             r \in RecLists, m \in {0, MaxRecs}}

\* fetch() either rejects (network failure) or resolves with a Response.
NetOutcomes ==
    {[kind |-> "reject", status |-> 0, body |-> NoBody]}
    \cup {[kind |-> "response", status |-> s, body |-> b] :
             s \in Statuses, b \in Bodies}

\* Response.ok
Ok(response) == response.status \in 200..299

(***************************************************************************)
(* ApiService                                                              *)
(***************************************************************************)
\* Messages of the errors the runtime itself raises (V8 wording).
FetchRejectMessage == "Failed to fetch"
JsonSyntaxMessage  == "Unexpected end of JSON input"
NullDetailMessage  == "Cannot read properties of null (reading 'detail')"

Thrown(name, message) ==
    [threw |-> TRUE, name |-> name, message |-> message, value |-> NoBody]
Returned(value) ==
    [threw |-> FALSE, name |-> "", message |-> "", value |-> value]

\* `HTTP error! status: ${response.status}`
GenericMessage(status) == "HTTP error! status: " \o ToString(status)

\* new Error(message): an undefined argument leaves the message empty.
NewError(hasMessage, message) ==
    Thrown("Error", IF hasMessage THEN message ELSE "")

\* handleResponse with the fallback object used for every error body.
handleResponse_FallbackAlways(response) ==
    IF ~Ok(response)
    THEN NewError(TRUE, GenericMessage(response.status))
    ELSE IF response.body.kind = "unparsable"
         THEN Thrown("SyntaxError", JsonSyntaxMessage)
         ELSE Returned(response.body)

\* handleResponse (api.ts 15-23)
handleResponse(response) ==
    IF ~Ok(response)
    THEN CASE response.body.kind = "unparsable" ->
                  NewError(TRUE, GenericMessage(response.status))
           [] response.body.kind = "null" ->
                  Thrown("TypeError", NullDetailMessage)
           [] OTHER ->
                  NewError(response.body.hasDetail, response.body.detail)
    ELSE IF response.body.kind = "unparsable"
         THEN Thrown("SyntaxError", JsonSyntaxMessage)
         ELSE Returned(response.body)

\* A method that hands the body back without going through handleResponse.
ApiCall_Unchecked(net) ==
    IF net.kind = "reject"
    THEN Thrown("TypeError", FetchRejectMessage)
    ELSE Returned(net.body)

\* await fetch(...) followed by return this.handleResponse(response):
\* the shape of every ApiService method (api.ts 26-105).
ApiCall(net) ==
    IF net.kind = "reject"
    THEN Thrown("TypeError", FetchRejectMessage)
    ELSE handleResponse(net)

ApiMethods == {"createUser", "getUser", "getProfessorRecommendations",
               "searchProfessors", "getAllProfessors", "healthCheck",
               "getResearchAreas"}

NoOp   == [op |-> "", called |-> FALSE, text |-> <<>>, message |-> ""]
Op(name) == [NoOp EXCEPT !.op = name]

(***************************************************************************)
(* The template modal of generate-email.html                               *)
(***************************************************************************)
MaxPending == 2     \* GET /get_templates requests in flight at once

\* The keys of data.templates, in the order for...in visits them.
TemplateNames == <<"intro", "followup">>

\* What the textarea holds: the body of one template (of = "" for the
\* empty textarea of the markup), as served or edited by the user.
NoContent == [of |-> "", edited |-> FALSE]

\* data.templates[name] of a /get_templates response
TemplateBody(name) == [of |-> name, edited |-> FALSE]

NoUpload == [sent |-> FALSE, settled |-> FALSE, template_name |-> "",
             template_content |-> NoContent]

\* The modal as the markup has it (197-210): hidden, no option, empty.
TemplateInit ==
    /\ modalOpen = FALSE
    /\ templateOptions = <<>>
    /\ templateSelected = ""
    /\ templateContent = NoContent
    /\ pendingGets = <<>>
    /\ lastUpload = NoUpload

(***************************************************************************)
(* SpecApi: each method, each outcome                                      *)
(***************************************************************************)
InitialFormData ==
    [name |-> "", major |-> "", research_interests |-> <<>>, skills |-> <<>>]

NullUserInfo == [isNull |-> TRUE, value |-> InitialFormData]
SomeUserInfo(u) == [isNull |-> FALSE, value |-> u]

\* lastCall holds the method, the UserInfo it was given (if any), what the
\* network did and what the method returned or threw.
NoCall == [method |-> "", arg |-> NullUserInfo,
           net |-> [kind |-> "reject", status |-> 0, body |-> NoBody],
           result |-> Returned(NoBody)]

Init ==
    /\ state = "form"
    /\ professors = <<>>
    /\ error = ""
    /\ userInfo = NullUserInfo
    /\ requests = <<>>
    /\ formData = InitialFormData
    /\ currentInterest = <<>>
    /\ currentSkill = <<>>
    /\ availableResearchAreas = <<>>
    /\ filteredResearchAreas = <<>>
    /\ showResearchDropdown = FALSE
    /\ loadingResearchAreas = TRUE
    /\ fetchPending = TRUE
    /\ lastCall = NoCall
    /\ lastSubmitted = NullUserInfo
    /\ lastOp = NoOp
    /\ TemplateInit

Call(method) ==
    \E net \in NetOutcomes :
        /\ lastCall' = [method |-> method, arg |-> NullUserInfo,
                        net |-> net, result |-> ApiCall(net)]
        /\ lastOp' = Op(method)
        /\ UNCHANGED <<appVars, formVars, lastSubmitted, tmplVars>>

createUser                  == Call("createUser")
getUser                     == Call("getUser")
getProfessorRecommendations == Call("getProfessorRecommendations")
searchProfessors            == Call("searchProfessors")
getAllProfessors            == Call("getAllProfessors")
healthCheck                 == Call("healthCheck")
getResearchAreas            == Call("getResearchAreas")

NextApi ==
    \/ createUser
    \/ getUser
    \/ getProfessorRecommendations
    \/ searchProfessors
    \/ getAllProfessors
    \/ healthCheck
    \/ getResearchAreas

SpecApi == Init /\ [][NextApi]_vars

(***************************************************************************)
(* ProfessorDisplay and the App render                                     *)
(***************************************************************************)
\* ProfessorDisplay without its no-results branch.
ProfessorDisplayBranch_NoEmpty(profs, loading, err) ==
    IF loading THEN "loading"
    ELSE IF err # "" THEN "error"
    ELSE "populated"

\* ProfessorDisplay testing the error before the loading flag.
ProfessorDisplayBranch_ErrorFirst(profs, loading, err) ==
    IF err # "" THEN "error"
    ELSE IF loading THEN "loading"
    ELSE IF Len(profs) = 0 THEN "empty"
    ELSE "populated"

\* ProfessorDisplay without its loading branch.
ProfessorDisplayBranch_NoLoading(profs, loading, err) ==
    IF err # "" THEN "error"
    ELSE IF Len(profs) = 0 THEN "empty"
    ELSE "populated"

\* ProfessorDisplay picks one branch (part_000 19-63).  The error prop is a
\* string; the empty string and a missing prop are both falsy.
ProfessorDisplayBranch(profs, loading, err) ==
    IF loading THEN "loading"
    ELSE IF err # "" THEN "error"
    ELSE IF Len(profs) = 0 THEN "empty"
    ELSE "populated"

\* Every branch rendering the button.
ButtonOffered_Always(branch, hasOnBack) == hasOnBack

\* Whether the branch renders its onBack button (part_000 36-40, 53-57,
\* 72-76); the loading branch has none.
ButtonOffered(branch, hasOnBack) ==
    branch # "loading" /\ hasOnBack

InterestsShown == 5     \* research_interests.slice(0, 5)

Min(a, b) == IF a < b THEN a ELSE b

\* A card that cuts the interests after four.
Card_ShowsFour(professor) ==
    LET n == Len(professor.research_interests)
    IN  [name    |-> professor.name,
         shown   |-> SubSeq(professor.research_interests, 1, Min(n, 4)),
         hasMore |-> n > 4,
         more    |-> IF n > 4 THEN n - 4 ELSE 0]

\* One professor card (part_000 81-104): the name, the interest tags
\* shown and the "+k more" tag.
Card(professor) ==
    LET n == Len(professor.research_interests)
    IN  [name    |-> professor.name,
         shown   |-> SubSeq(professor.research_interests, 1,
                            Min(n, InterestsShown)),
         hasMore |-> n > InterestsShown,
         more    |-> IF n > InterestsShown THEN n - InterestsShown ELSE 0]

\* professors.map(...) (part_000 80)
Cards(profs) == [i \in 1..Len(profs) |-> Card(profs[i])]

\* What App renders for its current state (types/index.ts 105-130).
View ==
    CASE state = "form" ->
           [component |-> "UserInfoForm", branch |-> "", button |-> FALSE,
            onBack |-> "", message |-> "", cards |-> <<>>]
      [] state = "loading" ->
           LET b == ProfessorDisplayBranch(<<>>, TRUE, "") IN
           [component |-> "ProfessorDisplay", branch |-> b,
            button |-> ButtonOffered(b, TRUE), onBack |-> "handleBack",
            message |-> "", cards |-> <<>>]
      [] state = "results" ->
           LET b == ProfessorDisplayBranch(professors, FALSE, "") IN
           [component |-> "ProfessorDisplay", branch |-> b,
            button |-> ButtonOffered(b, TRUE), onBack |-> "handleBack",
            message |-> "",
            cards |-> IF b = "populated" THEN Cards(professors) ELSE <<>>]
      [] state = "error" ->
           LET b == ProfessorDisplayBranch(<<>>, FALSE, error) IN
           [component |-> "ProfessorDisplay", branch |-> b,
            button |-> ButtonOffered(b, TRUE), onBack |-> "handleRetry",
            message |-> IF b = "error" THEN error ELSE "", cards |-> <<>>]

(***************************************************************************)
(* App handlers                                                            *)
(***************************************************************************)
\* The UserInfo values a valid form hands to onSubmit.
UserInfoSamples ==
    { [name |-> "Ann", major |-> "Computer Science",
       research_interests |-> <<<<"a">>>>, skills |-> <<>>],
      [name |-> "Bob", major |-> "Data Science",
       research_interests |-> <<>>, skills |-> <<<<"b">>>>] }

\* handleUserSubmit that forgets setError('').
handleUserSubmitStart_KeepError(userData) ==
    /\ state' = "loading"
    /\ userInfo' = SomeUserInfo(userData)
    /\ requests' = Append(requests, userData)
    /\ UNCHANGED <<professors, error>>

\* handleUserSubmit that keeps a UserInfo it already has.
handleUserSubmitStart_StaleInfo(userData) ==
    /\ state' = "loading"
    /\ error' = ""
    /\ userInfo' = IF userInfo.isNull THEN SomeUserInfo(userData) ELSE userInfo
    /\ requests' = Append(requests, userData)
    /\ UNCHANGED professors

\* handleUserSubmit that forgets setUserInfo(userData).
handleUserSubmitStart_NoStore(userData) ==
    /\ state' = "loading"
    /\ error' = ""
    /\ requests' = Append(requests, userData)
    /\ UNCHANGED <<professors, userInfo>>

\* handleUserSubmit up to its await (types/index.ts 59-66): the state
\* setters, then the request goes out and the invocation is suspended.
handleUserSubmitStart(userData) ==
    /\ state' = "loading"
    /\ error' = ""
    /\ userInfo' = SomeUserInfo(userData)
    /\ requests' = Append(requests, userData)
    /\ UNCHANGED professors

ErrorClasses == {"Error", "TypeError", "SyntaxError"}
NullResponseMessage ==
    "Cannot read properties of null (reading 'recommendations')"
NoRecommendationsMessage ==
    "Cannot read properties of undefined (reading 'length')"

\* What the try block of handleUserSubmit ends with for a settled call
\* (types/index.ts 64-78): the value caught, or the list to store.
TryOutcome(result) ==
    IF result.threw THEN result
    ELSE IF result.value.kind = "null"
         THEN Thrown("TypeError", NullResponseMessage)
    ELSE IF ~result.value.hasRecs
         THEN Thrown("TypeError", NoRecommendationsMessage)
    ELSE Returned(result.value)

\* err instanceof Error ? err.message : 'An unexpected error occurred'
CaughtMessage(err) ==
    IF err.name \in ErrorClasses THEN err.message
    ELSE "An unexpected error occurred"

RemoveAt(s, i) == SubSeq(s, 1, i - 1) \o SubSeq(s, i + 1, Len(s))

\* The continuation of handleUserSubmit after the await (64-78), for the
\* i-th pending invocation and the outcome its fetch had.
Settle ==
    \E i \in 1..Len(requests), net \in NetOutcomes :
        LET result  == ApiCall(net)
            outcome == TryOutcome(result)
        IN  /\ requests' = RemoveAt(requests, i)
            /\ IF outcome.threw
               THEN /\ error' = CaughtMessage(outcome)
                    /\ state' = "error"
                    /\ UNCHANGED professors
               ELSE /\ professors' =
                          IF Len(outcome.value.recommendations) = 0
                          THEN <<>>
                          ELSE outcome.value.recommendations
                    /\ state' = "results"
                    /\ UNCHANGED error
            /\ lastCall' = [method |-> "getProfessorRecommendations",
                            arg |-> SomeUserInfo(requests[i]),
                            net |-> net, result |-> result]
            /\ lastOp' = [Op("settle") EXCEPT
                            !.message = IF outcome.threw
                                        THEN outcome.message ELSE ""]
            /\ UNCHANGED <<userInfo, formVars, lastSubmitted, tmplVars>>

\* The form's submit reaches onSubmit={handleUserSubmit} (106).
Submit ==
    /\ View.component = "UserInfoForm"
    /\ \E userData \in UserInfoSamples :
          /\ handleUserSubmitStart(userData)
          /\ lastSubmitted' = SomeUserInfo(userData)
    /\ lastOp' = [Op("submit") EXCEPT !.called = TRUE]
    /\ UNCHANGED <<formVars, lastCall, tmplVars>>

\* handleBack that forgets setProfessors([]).
handleBack_KeepProfessors ==
    /\ View.button /\ View.onBack = "handleBack"
    /\ state' = "form"
    /\ error' = ""
    /\ lastOp' = Op("back")
    /\ UNCHANGED <<professors, userInfo, requests, formVars, lastCall,
                   lastSubmitted, tmplVars>>

\* handleBack (81-85), behind the button of the results display.
handleBack ==
    /\ View.button /\ View.onBack = "handleBack"
    /\ state' = "form"
    /\ error' = ""
    /\ professors' = <<>>
    /\ lastOp' = Op("back")
    /\ UNCHANGED <<userInfo, requests, formVars, lastCall, lastSubmitted, tmplVars>>

\* handleRetry (87-93), behind the button of the error display.
handleRetry ==
    /\ View.button /\ View.onBack = "handleRetry"
    /\ IF ~userInfo.isNull
       THEN handleUserSubmitStart(userInfo.value)
       ELSE /\ state' = "form"
            /\ UNCHANGED <<professors, error, userInfo, requests>>
    /\ lastOp' = Op("retry")
    /\ UNCHANGED <<formVars, lastCall, lastSubmitted, tmplVars>>

NextApp ==
    \/ Submit
    \/ Settle
    \/ handleBack
    \/ handleRetry

SpecApp == Init /\ [][NextApp]_vars

(***************************************************************************)
(* Claims about the App page (SpecApp)                                     *)
(***************************************************************************)
StepSucceeded == ~TryOutcome(lastCall'.result).threw

\* C1 (as stated): every change of the page state is one of form->loading
\* on submit, loading->results on a successful response, loading->error on
\* a thrown error, results->form on back, error->form on retry.
C1_Original ==
    [][ \/ state = "form" /\ state' = "loading" /\ lastOp'.op = "submit"
        \/ state = "loading" /\ state' = "results" /\ lastOp'.op = "settle"
             /\ StepSucceeded
        \/ state = "loading" /\ state' = "error" /\ lastOp'.op = "settle"
             /\ ~StepSucceeded
        \/ state = "results" /\ state' = "form" /\ lastOp'.op = "back"
        \/ state = "error" /\ state' = "form" /\ lastOp'.op = "retry"
      ]_vars

\* C1 (amended): the same transitions, except that the retry action of the
\* error state leads to loading (it resubmits) and never to form.
C1_Transitions ==
    [][ \/ state = "form" /\ state' = "loading" /\ lastOp'.op = "submit"
        \/ state = "loading" /\ state' = "results" /\ lastOp'.op = "settle"
             /\ StepSucceeded
        \/ state = "loading" /\ state' = "error" /\ lastOp'.op = "settle"
             /\ ~StepSucceeded
        \/ state = "results" /\ state' = "form" /\ lastOp'.op = "back"
        \/ state = "error" /\ state' = "loading" /\ lastOp'.op = "retry"
      ]_vars

\* A retry has just taken the page from error to loading.
C1_Witness ==
    /\ lastOp.op = "retry"
    /\ state = "loading"
    /\ lastCall.result.threw

\* C2: a retry step taken in the error state appends exactly one request,
\* and its payload is the UserInfo of the most recent form submit.
C2_RetryResubmits ==
    [][ state = "error" /\ lastOp'.op = "retry"
          => /\ ~lastSubmitted.isNull
             /\ requests' = Append(requests, lastSubmitted.value) ]_vars

\* A retry has resubmitted the second of two different submissions.
C2_Witness ==
    /\ lastOp.op = "retry"
    /\ requests = <<lastSubmitted.value>>
    /\ lastSubmitted.value.name = "Bob"

\* C3: never more than one pending recommendation request, and in the
\* loading state neither the form nor a back/retry button is rendered.
C3_OneInFlight ==
    /\ Len(requests) <= 1
    /\ state = "loading" => View.component # "UserInfoForm" /\ ~View.button

\* A request is pending after a retry.
C3_Witness ==
    /\ state = "loading"
    /\ Len(requests) = 1
    /\ lastOp.op = "retry"

\* C8 (as stated): in the error state the display is in its error branch
\* and shows the message of the error that was thrown.
C8_ErrorBranchShown ==
    state = "error" =>
        /\ View.branch = "error"
        /\ View.message = lastOp.message

(***************************************************************************)
(* Claims about ApiService (SpecApi)                                       *)
(***************************************************************************)
Called == lastCall.method \in ApiMethods
Failed == Called /\ lastCall.result.threw
NonOk  == Called /\ lastCall.net.kind = "response" /\ ~Ok(lastCall.net)

\* The generic message, written out for the modelled statuses.
GenericText(status) ==
    CASE status = 400 -> "HTTP error! status: 400"
      [] status = 500 -> "HTTP error! status: 500"
      [] status = 200 -> "HTTP error! status: 200"
      [] status = 201 -> "HTTP error! status: 201"

\* C9: a non-2xx response whose body is a JSON object with a detail field
\* rejects with that detail as message; a non-2xx response whose body
\* cannot be parsed rejects with "HTTP error! status: N".
C9_DetailOrGeneric ==
    NonOk =>
        /\ lastCall.net.body.kind = "object" /\ lastCall.net.body.hasDetail
             => /\ lastCall.result.threw
                /\ lastCall.result.message = lastCall.net.body.detail
        /\ lastCall.net.body.kind = "unparsable"
             => /\ lastCall.result.threw
                /\ lastCall.result.message = GenericText(lastCall.net.status)

\* A call was rejected with the detail "bad input".
C9_Witness ==
    /\ NonOk
    /\ lastCall.net.body.hasDetail
    /\ lastCall.net.body.detail = "bad input"
    /\ lastCall.result.message = "bad input"

IsServerDetail ==
    /\ lastCall.net.kind = "response"
    /\ lastCall.net.body.kind = "object"
    /\ lastCall.net.body.hasDetail
    /\ lastCall.result.message = lastCall.net.body.detail

IsGenericMessage ==
    /\ lastCall.net.kind = "response"
    /\ lastCall.result.message = GenericText(lastCall.net.status)

\* C10 (as stated): every failed call carries the server's detail or the
\* generic HTTP-status message.
C10_Original == Failed => IsServerDetail \/ IsGenericMessage

\* C10 (amended): a call fails exactly on a network failure, a non-2xx
\* response or an unparsable success body, always as a thrown error; the
\* message is the detail or the generic text only for a non-2xx response
\* with a detail field or an unparsable body; otherwise it is empty (JSON
\* object without detail) or the runtime's own message.
C10_FailureMessages ==
    Called =>
        LET net == lastCall.net
            res == lastCall.result
        IN  /\ res.threw <=> \/ net.kind = "reject"
                             \/ ~Ok(net)
                             \/ net.body.kind = "unparsable"
            /\ res.threw => res.name \in ErrorClasses
            /\ net.kind = "reject" => res.message = FetchRejectMessage
            /\ NonOk /\ net.body.kind = "unparsable" => IsGenericMessage
            /\ NonOk /\ net.body.kind = "object" /\ net.body.hasDetail
                 => IsServerDetail
            /\ NonOk /\ net.body.kind = "object" /\ ~net.body.hasDetail
                 => res.message = ""
            /\ NonOk /\ net.body.kind = "null"
                 => res.message = NullDetailMessage
            /\ net.kind = "response" /\ Ok(net) /\ net.body.kind = "unparsable"
                 => res.message = JsonSyntaxMessage

\* A call failed on the network, with neither detail nor status.
C10_Witness ==
    /\ Failed
    /\ lastCall.net.kind = "reject"
    /\ lastCall.result.message = FetchRejectMessage

(***************************************************************************)
(* Text: a string is a sequence of one-letter strings                      *)
(***************************************************************************)
UpperCase ==
    <<"A", "B", "C", "D", "E", "F", "G", "H", "I", "J", "K", "L", "M",
      "N", "O", "P", "Q", "R", "S", "T", "U", "V", "W", "X", "Y", "Z">>
LowerCase ==
    <<"a", "b", "c", "d", "e", "f", "g", "h", "i", "j", "k", "l", "m",
      "n", "o", "p", "q", "r", "s", "t", "u", "v", "w", "x", "y", "z">>

WhiteSpace == {" "}

\* The lower-case letter of each upper-case letter
LowerOf ==
    [c \in Range(UpperCase) |->
        LowerCase[CHOOSE i \in 1..Len(UpperCase) : UpperCase[i] = c]]

ToLowerChar(c) == IF c \in DOMAIN LowerOf THEN LowerOf[c] ELSE c

\* String.prototype.toLowerCase
ToLowerCase(s) == [i \in 1..Len(s) |-> ToLowerChar(s[i])]

RECURSIVE TrimStart(_)
TrimStart(s) ==
    IF s # <<>> /\ Head(s) \in WhiteSpace THEN TrimStart(Tail(s)) ELSE s

RECURSIVE TrimEnd(_)
TrimEnd(s) ==
    IF s # <<>> /\ s[Len(s)] \in WhiteSpace
    THEN TrimEnd(SubSeq(s, 1, Len(s) - 1))
    ELSE s

\* String.prototype.trim
Trim(s) == TrimEnd(TrimStart(s))

\* String.prototype.includes
Includes(s, part) ==
    \E i \in 0..(Len(s) - Len(part)) : SubSeq(s, i + 1, i + Len(part)) = part

\* Array.prototype.includes on an array of strings
ArrayIncludes(list, x) == \E i \in 1..Len(list) : list[i] = x

\* Array.prototype.slice(0, n)
SliceTo(list, n) == SubSeq(list, 1, IF Len(list) < n THEN Len(list) ELSE n)

(***************************************************************************)
(* UserInfoForm                                                            *)
(***************************************************************************)
\* fallbackAreas (UserInfoForm.tsx 37-48)
fallbackAreas == <<
    <<"A", "r", "t", "i", "f", "i", "c", "i", "a", "l", " ", "I",
         "n", "t", "e", "l", "l", "i", "g", "e", "n", "c", "e">>,
    <<"M", "a", "c", "h", "i", "n", "e", " ", "L", "e", "a", "r",
         "n", "i", "n", "g">>,
    <<"D", "a", "t", "a", " ", "S", "c", "i", "e", "n", "c", "e">>,
    <<"C", "o", "m", "p", "u", "t", "e", "r", " ", "V", "i", "s",
         "i", "o", "n">>,
    <<"N", "a", "t", "u", "r", "a", "l", " ", "L", "a", "n", "g",
         "u", "a", "g", "e", " ", "P", "r", "o", "c", "e", "s", "s",
         "i", "n", "g">>,
    <<"C", "y", "b", "e", "r", "s", "e", "c", "u", "r", "i", "t",
         "y">>,
    <<"S", "o", "f", "t", "w", "a", "r", "e", " ", "E", "n", "g",
         "i", "n", "e", "e", "r", "i", "n", "g">>,
    <<"H", "u", "m", "a", "n", "-", "C", "o", "m", "p", "u", "t",
         "e", "r", " ", "I", "n", "t", "e", "r", "a", "c", "t", "i",
         "o", "n">>,
    <<"R", "o", "b", "o", "t", "i", "c", "s">>,
    <<"C", "o", "m", "p", "u", "t", "e", "r", " ", "N", "e", "t",
         "w", "o", "r", "k", "s">> >>

DropdownLimit == 10     \* filteredResearchAreas.slice(0, 10)

\* Lists GET /research-areas may answer with.
AreaListSamples ==
    { <<>>,
      << <<"B">>, <<"b">>, <<" ", "b">> >> }

\* Outcomes of GET /research-areas; a parsed 2xx object has the declared
\* shape { research_areas, count }.
AreaOutcomes ==
    {[kind |-> "reject", status |-> 0, body |-> NoBody]}
    \cup {[kind |-> "response", status |-> 500, body |-> b] :
            b \in {NoBody, [NoBody EXCEPT !.kind = "null"],
                   [NoBody EXCEPT !.kind = "object", !.hasDetail = TRUE,
                                  !.detail = "bad input"]}}
    \cup {[kind |-> "response", status |-> 200, body |-> b] :
            b \in {NoBody, [NoBody EXCEPT !.kind = "null"]}
                  \cup {[NoBody EXCEPT !.kind = "object", !.hasAreas = TRUE,
                                       !.research_areas = l] :
                           l \in AreaListSamples}}

\* What the user can have in the two tag inputs, and in name and major.
\* The empty text is the inputs' initial value and is always included.
InterestInputs == { <<"b">>, <<" ", "b">> }
SkillInputs    == { <<" ">>, <<"B">>, <<" ", "b">> }
NameInputs     == {"", "Ann"}
MajorOptions   == {"", "Computer Science"}

\* JavaScript truthiness of a string
Truthy(s) == s # ""
TruthyText(s) == s # <<>>

\* Why a /research-areas request fails, "" when it does not: fetch rejects,
\* handleResponse throws for a status outside 2xx, response.json() rejects,
\* or the body is null and reading research_areas of it throws.
FailureClass(net) ==
    IF net.kind = "reject" THEN "network"
    ELSE IF ~Ok(net) THEN "non-2xx"
    ELSE IF net.body.kind = "unparsable" THEN "json"
    ELSE IF net.body.kind = "null" THEN "null body"
    ELSE ""

\* fetchResearchAreas whose loading flag is only cleared in the try block.
fetchResearchAreas_NoFinally ==
    /\ fetchPending
    /\ \E net \in AreaOutcomes :
         LET result == ApiCall(net)
             failed == result.threw \/ result.value.kind = "null"
             areas  == IF failed THEN fallbackAreas
                       ELSE result.value.research_areas
         IN  /\ availableResearchAreas' = areas
             /\ filteredResearchAreas' = areas
             /\ lastOp' = [Op("fetchResearchAreas") EXCEPT
                              !.called = ~failed,
                              !.message = FailureClass(net)]
    /\ loadingResearchAreas' = (lastOp'.message # "")
    /\ fetchPending' = FALSE
    /\ UNCHANGED <<formData, currentInterest, currentSkill,
                   showResearchDropdown, appVars, lastCall, lastSubmitted, tmplVars>>

\* fetchResearchAreas (28-57), run once on mount: try, catch and finally
fetchResearchAreas ==
    /\ fetchPending
    /\ \E net \in AreaOutcomes :
         LET result == ApiCall(net)
             failed == result.threw \/ result.value.kind = "null"
             areas  == IF failed THEN fallbackAreas
                       ELSE result.value.research_areas
         IN  /\ availableResearchAreas' = areas
             /\ filteredResearchAreas' = areas
             /\ lastOp' = [Op("fetchResearchAreas") EXCEPT
                              !.called = ~failed,
                              !.message = FailureClass(net)]
    /\ loadingResearchAreas' = FALSE
    /\ fetchPending' = FALSE
    /\ UNCHANGED <<formData, currentInterest, currentSkill,
                   showResearchDropdown, appVars, lastCall, lastSubmitted, tmplVars>>

\* filterResearchAreas comparing the texts as they are, case included.
filterResearchAreas_CaseSensitive(input) ==
    IF Trim(input) = <<>>
    THEN availableResearchAreas
    ELSE LET Matches(area) == Includes(area, input)
         IN  SelectSeq(availableResearchAreas, Matches)

\* filterResearchAreas (60-70): the new value of filteredResearchAreas
filterResearchAreas(input) ==
    IF Trim(input) = <<>>
    THEN availableResearchAreas
    ELSE LET Matches(area) == Includes(ToLowerCase(area), ToLowerCase(input))
         IN  SelectSeq(availableResearchAreas, Matches)

\* handleInputChange (85-90), bound to the name input and the major select
handleInputChange ==
    /\ \E field \in {"name", "major"} :
         \E value \in (IF field = "name" THEN NameInputs ELSE MajorOptions) :
            formData' = [formData EXCEPT ![field] = value]
    /\ lastOp' = Op("edit")
    /\ UNCHANGED <<currentInterest, currentSkill, availableResearchAreas,
                   filteredResearchAreas, showResearchDropdown,
                   loadingResearchAreas, fetchPending,
                   appVars, lastCall, lastSubmitted, tmplVars>>

\* The research input is disabled while the areas load (208).
ResearchInputEnabled == ~loadingResearchAreas

\* handleResearchInputChange (104-108) for a value out of a set of texts
handleResearchInputChangeTo(values) ==
    /\ ResearchInputEnabled
    /\ \E value \in values :
         /\ currentInterest' = value
         /\ filteredResearchAreas' = filterResearchAreas(value)
    /\ showResearchDropdown' = TRUE
    /\ lastOp' = Op("edit")
    /\ UNCHANGED <<formData, currentSkill, availableResearchAreas,
                   loadingResearchAreas, fetchPending,
                   appVars, lastCall, lastSubmitted, tmplVars>>

\* onChange of the research input (204)
handleResearchInputChange ==
    handleResearchInputChangeTo(InterestInputs \cup {<<>>})

\* onFocus of the research input (206)
FocusResearchInput ==
    /\ ResearchInputEnabled
    /\ showResearchDropdown' = TRUE
    /\ lastOp' = Op("edit")
    /\ UNCHANGED <<formData, currentInterest, currentSkill,
                   availableResearchAreas, filteredResearchAreas,
                   loadingResearchAreas, fetchPending,
                   appVars, lastCall, lastSubmitted, tmplVars>>

\* Escape in the research input (114-116) and a mousedown outside the
\* autocomplete container (73-83) both hide the dropdown.
HideDropdown ==
    /\ showResearchDropdown' = FALSE
    /\ lastOp' = Op("edit")
    /\ UNCHANGED <<formData, currentInterest, currentSkill,
                   availableResearchAreas, filteredResearchAreas,
                   loadingResearchAreas, fetchPending,
                   appVars, lastCall, lastSubmitted, tmplVars>>

\* addResearchInterest that stores the text as typed, without trim().
addResearchInterest_Untrimmed(hasArg, interest) ==
    LET interestToAdd ==
            IF hasArg /\ TruthyText(interest) THEN interest ELSE currentInterest
    IN  IF /\ TruthyText(Trim(interestToAdd))
           /\ ~ArrayIncludes(formData.research_interests, Trim(interestToAdd))
        THEN /\ Len(formData.research_interests) < MaxInterests
             /\ formData' = [formData EXCEPT !.research_interests =
                                Append(@, interestToAdd)]
             /\ currentInterest' = <<>>
             /\ showResearchDropdown' = FALSE
        ELSE UNCHANGED <<formData, currentInterest, showResearchDropdown>>

\* addResearchInterest ignoring what is already in the list.
addResearchInterest_NoDupCheck(hasArg, interest) ==
    LET interestToAdd ==
            IF hasArg /\ TruthyText(interest) THEN interest ELSE currentInterest
    IN  IF TruthyText(Trim(interestToAdd))
        THEN /\ Len(formData.research_interests) < MaxInterests
             /\ formData' = [formData EXCEPT !.research_interests =
                                Append(@, Trim(interestToAdd))]
             /\ currentInterest' = <<>>
             /\ showResearchDropdown' = FALSE
        ELSE UNCHANGED <<formData, currentInterest, showResearchDropdown>>

\* addResearchInterest (92-102); interest is optional.  The form is filled
\* with at most MaxInterests entries.
addResearchInterest(hasArg, interest) ==
    LET interestToAdd ==
            IF hasArg /\ TruthyText(interest) THEN interest ELSE currentInterest
    IN  IF /\ TruthyText(Trim(interestToAdd))
           /\ ~ArrayIncludes(formData.research_interests, Trim(interestToAdd))
        THEN /\ Len(formData.research_interests) < MaxInterests
             /\ formData' = [formData EXCEPT !.research_interests =
                                Append(@, Trim(interestToAdd))]
             /\ currentInterest' = <<>>
             /\ showResearchDropdown' = FALSE
        ELSE UNCHANGED <<formData, currentInterest, showResearchDropdown>>

\* Enter in the research input (110-113) or its Add button (210-216)
AddTypedInterest ==
    /\ ResearchInputEnabled
    /\ addResearchInterest(FALSE, <<>>)
    /\ lastOp' = Op("addTypedInterest")
    /\ UNCHANGED <<currentSkill, availableResearchAreas, filteredResearchAreas,
                   loadingResearchAreas, fetchPending,
                   appVars, lastCall, lastSubmitted, tmplVars>>

\* The dropdown is rendered (219).
DropdownVisible ==
    /\ showResearchDropdown
    /\ Len(filteredResearchAreas) > 0
    /\ TruthyText(currentInterest)

\* Click on an item of the dropdown (221-229)
PickResearchArea ==
    /\ DropdownVisible
    /\ \E i \in 1..Len(SliceTo(filteredResearchAreas, DropdownLimit)) :
         /\ addResearchInterest(TRUE, filteredResearchAreas[i])
         /\ lastOp' = [Op("pickResearchArea") EXCEPT
                          !.text = filteredResearchAreas[i]]
    /\ UNCHANGED <<currentSkill, availableResearchAreas, filteredResearchAreas,
                   loadingResearchAreas, fetchPending,
                   appVars, lastCall, lastSubmitted, tmplVars>>

\* removeResearchInterest comparing without regard to case.
removeResearchInterest_IgnoreCase(prev, interest) ==
    LET Other(i) == ToLowerCase(i) # ToLowerCase(interest)
    IN  [prev EXCEPT !.research_interests = SelectSeq(@, Other)]

\* The state updater of removeResearchInterest (119-124)
removeResearchInterest(prev, interest) ==
    LET Other(i) == i # interest
    IN  [prev EXCEPT !.research_interests = SelectSeq(@, Other)]

\* The x button of a research-interest tag (242-248)
RemoveResearchInterest ==
    /\ \E i \in 1..Len(formData.research_interests) :
         /\ formData' = removeResearchInterest(formData,
                                               formData.research_interests[i])
         /\ lastOp' = Op("edit")
    /\ UNCHANGED <<currentInterest, currentSkill, availableResearchAreas,
                   filteredResearchAreas, showResearchDropdown,
                   loadingResearchAreas, fetchPending,
                   appVars, lastCall, lastSubmitted, tmplVars>>

\* onChange of the skill input (263)
setCurrentSkill ==
    /\ \E value \in SkillInputs \cup {<<>>} : currentSkill' = value
    /\ lastOp' = Op("edit")
    /\ UNCHANGED <<formData, currentInterest, availableResearchAreas,
                   filteredResearchAreas, showResearchDropdown,
                   loadingResearchAreas, fetchPending,
                   appVars, lastCall, lastSubmitted, tmplVars>>

\* addSkill looking for the untrimmed text in the list.
addSkill_UntrimmedCheck ==
    /\ IF /\ TruthyText(Trim(currentSkill))
          /\ ~ArrayIncludes(formData.skills, currentSkill)
       THEN /\ Len(formData.skills) < MaxSkills
            /\ formData' = [formData EXCEPT !.skills =
                               Append(@, Trim(currentSkill))]
            /\ currentSkill' = <<>>
       ELSE UNCHANGED <<formData, currentSkill>>
    /\ lastOp' = Op("addSkill")
    /\ UNCHANGED <<currentInterest, availableResearchAreas,
                   filteredResearchAreas, showResearchDropdown,
                   loadingResearchAreas, fetchPending,
                   appVars, lastCall, lastSubmitted, tmplVars>>

\* addSkill (126-134), from Enter in the skill input or its Add button
addSkill ==
    /\ IF /\ TruthyText(Trim(currentSkill))
          /\ ~ArrayIncludes(formData.skills, Trim(currentSkill))
       THEN /\ Len(formData.skills) < MaxSkills
            /\ formData' = [formData EXCEPT !.skills =
                               Append(@, Trim(currentSkill))]
            /\ currentSkill' = <<>>
       ELSE UNCHANGED <<formData, currentSkill>>
    /\ lastOp' = Op("addSkill")
    /\ UNCHANGED <<currentInterest, availableResearchAreas,
                   filteredResearchAreas, showResearchDropdown,
                   loadingResearchAreas, fetchPending,
                   appVars, lastCall, lastSubmitted, tmplVars>>

\* The state updater of removeSkill (136-141)
removeSkill(prev, skill) ==
    LET Other(s) == s # skill
    IN  [prev EXCEPT !.skills = SelectSeq(@, Other)]

\* The x button of a skill tag (275-281)
RemoveSkill ==
    /\ \E i \in 1..Len(formData.skills) :
         /\ formData' = removeSkill(formData, formData.skills[i])
         /\ lastOp' = Op("edit")
    /\ UNCHANGED <<currentInterest, currentSkill, availableResearchAreas,
                   filteredResearchAreas, showResearchDropdown,
                   loadingResearchAreas, fetchPending,
                   appVars, lastCall, lastSubmitted, tmplVars>>

\* The test of handleSubmit with || for &&.
SubmitAllowed_Either(data) == Truthy(data.name) \/ Truthy(data.major)

\* Whether handleSubmit goes on to call onSubmit (145)
SubmitAllowed(data) == Truthy(data.name) /\ Truthy(data.major)

\* handleSubmit (143-148); the parent notes whether onSubmit(formData) was
\* called.
handleSubmit ==
    /\ lastOp' = [Op("handleSubmit") EXCEPT !.called = SubmitAllowed(formData)]
    /\ UNCHANGED <<formVars, appVars, lastCall, lastSubmitted, tmplVars>>

NextForm ==
    \/ fetchResearchAreas
    \/ handleInputChange
    \/ handleResearchInputChange
    \/ FocusResearchInput
    \/ HideDropdown
    \/ AddTypedInterest
    \/ PickResearchArea
    \/ RemoveResearchInterest
    \/ setCurrentSkill
    \/ addSkill
    \/ RemoveSkill
    \/ handleSubmit

SpecForm == Init /\ [][NextForm]_vars

(***************************************************************************)
(* SpecTags: the two remove updaters applied to any tag list               *)
(***************************************************************************)
TagSamples == { <<"a">>, <<"b">>, <<"B">>, <<"a", " ", "b">> }

\* Lists of distinct tags, as the add handlers build them.
TagLists ==
    {l \in UNION {[1..n -> TagSamples] : n \in 0..MaxList} :
        \A i, j \in 1..Len(l) : l[i] = l[j] => i = j}

InitTags ==
    /\ state = "form"
    /\ professors = <<>>
    /\ error = ""
    /\ userInfo = NullUserInfo
    /\ requests = <<>>
    /\ \E ri \in TagLists, sk \in TagLists :
          formData = [name |-> "Ann", major |-> "Computer Science",
                      research_interests |-> ri, skills |-> sk]
    /\ currentInterest = <<>>
    /\ currentSkill = <<>>
    /\ availableResearchAreas = fallbackAreas
    /\ filteredResearchAreas = fallbackAreas
    /\ showResearchDropdown = FALSE
    /\ loadingResearchAreas = FALSE
    /\ fetchPending = FALSE
    /\ lastCall = NoCall
    /\ lastSubmitted = NullUserInfo
    /\ lastOp = NoOp
    /\ TemplateInit

\* removeResearchInterest(interest) for any string
CallRemoveResearchInterest ==
    /\ \E interest \in TagSamples :
         /\ formData' = removeResearchInterest(formData, interest)
         /\ lastOp' = [Op("removeResearchInterest") EXCEPT
                          !.text = interest,
                          !.called = ArrayIncludes(formData.research_interests,
                                                   interest)]
    /\ UNCHANGED <<currentInterest, currentSkill, availableResearchAreas,
                   filteredResearchAreas, showResearchDropdown,
                   loadingResearchAreas, fetchPending,
                   appVars, lastCall, lastSubmitted, tmplVars>>

\* removeSkill(skill) for any string
CallRemoveSkill ==
    /\ \E skill \in TagSamples :
         /\ formData' = removeSkill(formData, skill)
         /\ lastOp' = [Op("removeSkill") EXCEPT
                          !.text = skill,
                          !.called = ArrayIncludes(formData.skills, skill)]
    /\ UNCHANGED <<currentInterest, currentSkill, availableResearchAreas,
                   filteredResearchAreas, showResearchDropdown,
                   loadingResearchAreas, fetchPending,
                   appVars, lastCall, lastSubmitted, tmplVars>>

NextTags ==
    \/ CallRemoveResearchInterest
    \/ CallRemoveSkill

SpecTags == InitTags /\ [][NextTags]_vars

(***************************************************************************)
(* Claims about UserInfoForm (SpecForm, SpecTags)                          *)
(***************************************************************************)
\* C4: a submit made while name or major is empty does not call onSubmit,
\* whatever the two tag lists hold.
C4_NoSubmitWhenEmpty ==
    lastOp.op = "handleSubmit" /\ (formData.name = "" \/ formData.major = "")
        => ~lastOp.called

\* handleSubmit ran with a major and a skill but no name, and held back.
C4_Witness ==
    /\ lastOp.op = "handleSubmit"
    /\ ~lastOp.called
    /\ formData.name = ""
    /\ formData.major # ""
    /\ Len(formData.skills) > 0

NoDuplicates(list) == \A i, j \in 1..Len(list) : list[i] = list[j] => i = j

\* C5: neither tag list ever holds the same string twice.
C5_NoDuplicates ==
    /\ NoDuplicates(formData.research_interests)
    /\ NoDuplicates(formData.skills)

\* An area already in a full list was picked again from the dropdown.
C5_Witness ==
    /\ lastOp.op = "pickResearchArea"
    /\ Len(formData.research_interests) = MaxInterests
    /\ ArrayIncludes(formData.research_interests, Trim(lastOp.text))
    /\ DropdownVisible

\* The value an add is made with is empty after trimming, or in the list.
NotAddable(value, list) ==
    Trim(value) = <<>> \/ \E i \in 1..Len(list) : list[i] = Trim(value)

\* C6: an add (typed interest, picked area, skill) whose trimmed value is
\* empty or already in its list by exact match changes nothing in
\* formData: neither list, nor name, nor major.
C6_AddIsNoOp ==
    [][ /\ lastOp'.op = "addTypedInterest"
           /\ NotAddable(currentInterest, formData.research_interests)
           => formData' = formData
        /\ lastOp'.op = "pickResearchArea"
           /\ NotAddable(lastOp'.text, formData.research_interests)
           => formData' = formData
        /\ lastOp'.op = "addSkill"
           /\ NotAddable(currentSkill, formData.skills)
           => formData' = formData
      ]_vars

\* addSkill ran on " b" while "b" was in the list next to "B".
C6_Witness ==
    /\ lastOp.op = "addSkill"
    /\ currentSkill = <<" ", "b">>
    /\ formData.skills = << <<"B">>, <<"b">> >>
    /\ formData.name # ""
    /\ Len(formData.research_interests) > 0

\* list without its k-th element
Without(list, k) == SubSeq(list, 1, k - 1) \o SubSeq(list, k + 1, Len(list))

Removed(old, new, x) ==
    IF \E k \in 1..Len(old) : old[k] = x
    THEN /\ \A i \in 1..Len(new) : new[i] # x
         /\ \E k \in 1..Len(old) : old[k] = x /\ new = Without(old, k)
    ELSE new = old

\* C7: a remove leaves a list that lacks the string unchanged, deletes the
\* string from a list that has it and keeps the other tags in order; the
\* other list, name and major stay as they are.
C7_RemoveFilters ==
    [][ /\ lastOp'.op = "removeResearchInterest"
           => /\ Removed(formData.research_interests,
                         formData'.research_interests, lastOp'.text)
              /\ formData' = [formData EXCEPT !.research_interests =
                                 formData'.research_interests]
        /\ lastOp'.op = "removeSkill"
           => /\ Removed(formData.skills, formData'.skills, lastOp'.text)
              /\ formData' = [formData EXCEPT !.skills = formData'.skills]
      ]_vars

\* "b" was removed from between two other tags, "B" among them.
C7_Witness ==
    /\ lastOp.op = "removeResearchInterest"
    /\ lastOp.called
    /\ lastOp.text = <<"b">>
    /\ formData.research_interests = << <<"B">>, <<"a">> >>

(***************************************************************************)
(* SpecAuto: the research input and its dropdown alone, with white space   *)
(* among the texts typed                                                   *)
(***************************************************************************)
AutoInputs == { <<>>, <<" ">>, <<"b">>, <<"B">> }

\* onChange of the research input (204)
TypeResearchInput == handleResearchInputChangeTo(AutoInputs)

NextAuto ==
    \/ fetchResearchAreas
    \/ TypeResearchInput
    \/ FocusResearchInput
    \/ HideDropdown
    \/ AddTypedInterest
    \/ PickResearchArea
    \/ RemoveResearchInterest

SpecAuto == Init /\ [][NextAuto]_vars

(***************************************************************************)
(* SpecTemplates: the template modal, its requests answered in any order   *)
(***************************************************************************)
\* #customize-templates click (320-338), up to the $.get.  The overlay
\* covers the button while the modal is shown.
CustomizeTemplates ==
    /\ ~modalOpen
    /\ Len(pendingGets) < MaxPending
    /\ modalOpen' = TRUE
    /\ pendingGets' = Append(pendingGets, [handler |-> "customize",
                                           selectedTemplate |-> ""])
    /\ UNCHANGED <<templateOptions, templateSelected, templateContent,
                   lastUpload, appVars, formVars, obsVars>>

\* #template-select change (341-348), up to the $.get: the chosen value
\* is captured in selectedTemplate.
SelectTemplate ==
    /\ modalOpen
    /\ Len(pendingGets) < MaxPending
    /\ \E i \in 1..Len(templateOptions) :
         /\ templateOptions[i] # templateSelected
         /\ templateSelected' = templateOptions[i]
         /\ pendingGets' = Append(pendingGets,
                                  [handler |-> "change",
                                   selectedTemplate |-> templateOptions[i]])
    /\ UNCHANGED <<modalOpen, templateOptions, templateContent,
                   lastUpload, appVars, formVars, obsVars>>

\* The success callback of one outstanding $.get("/get_templates"), of the
\* customize click (325-337) or of the select's change (345-347).
GetTemplatesDone ==
    \E i \in 1..Len(pendingGets) :
        /\ pendingGets' = RemoveAt(pendingGets, i)
        /\ IF pendingGets[i].handler = "customize"
           THEN LET firstTemplate == TemplateNames[1]
                IN  /\ templateOptions' = TemplateNames
                    /\ templateSelected' = firstTemplate
                    /\ templateContent' = TemplateBody(firstTemplate)
           ELSE /\ templateContent' =
                      TemplateBody(pendingGets[i].selectedTemplate)
                /\ UNCHANGED <<templateOptions, templateSelected>>
        /\ UNCHANGED <<modalOpen, lastUpload, appVars, formVars, obsVars>>

\* The user types in #template-content (204).
EditTemplateContent ==
    /\ modalOpen
    /\ templateContent' = [templateContent EXCEPT !.edited = TRUE]
    /\ UNCHANGED <<modalOpen, templateOptions, templateSelected,
                   pendingGets, lastUpload, appVars, formVars, obsVars>>

\* #save-template click (351-361)
SaveTemplate ==
    /\ modalOpen
    /\ lastUpload' = [sent |-> TRUE, settled |-> pendingGets = <<>>,
                      template_name |-> templateSelected,
                      template_content |-> templateContent]
    /\ UNCHANGED <<modalOpen, templateOptions, templateSelected,
                   templateContent, pendingGets,
                   appVars, formVars, obsVars>>

\* #close-modal or #modal-overlay click (364-367)
CloseModal ==
    /\ modalOpen
    /\ modalOpen' = FALSE
    /\ UNCHANGED <<templateOptions, templateSelected, templateContent,
                   pendingGets, lastUpload, appVars, formVars, obsVars>>

NextTemplates ==
    \/ CustomizeTemplates
    \/ SelectTemplate
    \/ GetTemplatesDone
    \/ EditTemplateContent
    \/ SaveTemplate
    \/ CloseModal

SpecTemplates == Init /\ [][NextTemplates]_vars

(***************************************************************************)
(* Further claims about the App page (SpecApp)                             *)
(***************************************************************************)
\* The request that has just settled returned a recommendation response.
SettledWithResponse ==
    /\ lastOp.op = "settle"
    /\ ~lastCall.result.threw
    /\ lastCall.result.value.kind = "object"
    /\ lastCall.result.value.hasRecs

NoResultsShown ==
    /\ state = "results"
    /\ View.branch = "empty"
    /\ View.button /\ View.onBack = "handleBack"

\* C11 (as stated): a response with match_count 0 ends in the results
\* state showing the no-results branch, whatever its list holds.
C11_Original ==
    SettledWithResponse /\ lastCall.result.value.match_count = 0
        => NoResultsShown

\* C11 (amended): a response ends in the results state; the no-results
\* branch with its back button is shown exactly when the recommendations
\* list is empty, whatever match_count says.
C11_EmptyListNoResults ==
    SettledWithResponse =>
        /\ state = "results"
        /\ NoResultsShown <=> Len(lastCall.result.value.recommendations) = 0

\* An empty list came with a match_count that is not 0.
C11_Witness ==
    /\ SettledWithResponse
    /\ lastCall.result.value.recommendations = <<>>
    /\ lastCall.result.value.match_count # 0
    /\ NoResultsShown

\* The first tags of a list of interests, at most five
FirstFive(list) == [j \in 1..(IF Len(list) < 5 THEN Len(list) ELSE 5) |-> list[j]]

\* C13: after a successful submit there is one card per recommended
\* professor, in order; a card shows the first min(5, n) of the n
\* interests and a "+k more" tag with k = n - 5 exactly when n > 5.
C13_CardsAndTags ==
    SettledWithResponse =>
        LET recs == lastCall.result.value.recommendations
        IN  /\ Len(View.cards) = Len(recs)
            /\ \A i \in 1..Len(recs) :
                 LET n == Len(recs[i].research_interests)
                     c == View.cards[i]
                 IN  /\ c.name = recs[i].name
                     /\ c.shown = FirstFive(recs[i].research_interests)
                     /\ c.hasMore <=> n > 5
                     /\ c.hasMore => c.more = n - 5

\* Two cards: six interests cut to five with "+1 more", and five in full.
C13_Witness ==
    /\ SettledWithResponse
    /\ Len(View.cards) = 2
    /\ View.cards[1].hasMore /\ View.cards[1].more = 1
    /\ Len(View.cards[1].shown) = 5
    /\ ~View.cards[2].hasMore /\ Len(View.cards[2].shown) = 5

\* C14: in the loading state only the spinner is rendered: no form, no
\* button, no message, no card; and ProfessorDisplay chooses the loading
\* branch whatever professors and error it is given with loading set.
C14_LoadingOnly ==
    state = "loading" =>
        /\ View.component = "ProfessorDisplay"
        /\ View.branch = "loading"
        /\ ~View.button
        /\ View.message = "" /\ View.cards = <<>>
        /\ \A p \in RecLists, e \in {"", "bad input", FetchRejectMessage} :
              ProfessorDisplayBranch(p, TRUE, e) = "loading"

\* A second submission is loading after an earlier one was answered.
C14_Witness ==
    /\ state = "loading"
    /\ lastOp.op = "submit"
    /\ lastCall.method = "getProfessorRecommendations"
    /\ View.branch = "loading"

\* C15: the stored professors list is empty unless the state is results.
C15_ProfessorsOnlyInResults ==
    state # "results" => professors = <<>>

\* Back from a populated result list: the form, and the list dropped.
C15_Witness ==
    /\ lastOp.op = "back"
    /\ state = "form"
    /\ professors = <<>>
    /\ ~lastCall.result.threw
    /\ Len(lastCall.result.value.recommendations) > 0

\* C16: the stored error message is empty unless the state is error.
C16_ErrorOnlyInError ==
    state # "error" => error = ""

\* A retry after an error with a message: loading, and the message gone.
C16_Witness ==
    /\ lastOp.op = "retry"
    /\ state = "loading"
    /\ error = ""
    /\ lastCall.result.threw
    /\ lastCall.result.message # ""

\* C17: outside the form state the stored UserInfo is set and is the
\* payload of the most recent request (pending, or the one last settled);
\* a retry therefore always resubmits and never falls back to the form.
C17_UserInfoIsLastPayload ==
    /\ state \in {"loading", "results", "error"} =>
          /\ ~userInfo.isNull
          /\ state = "loading" => requests = <<userInfo.value>>
          /\ state # "loading" => lastCall.arg = userInfo
    /\ lastOp.op = "retry" => state = "loading"

\* A second, different submission has been answered with an error.
C17_Witness ==
    /\ state = "error"
    /\ lastOp.op = "settle"
    /\ userInfo = lastCall.arg
    /\ userInfo.value.name = "Bob"

(***************************************************************************)
(* Further claims about the form (SpecForm)                                *)
(***************************************************************************)
\* C12: when the research-areas request fails (network error, status
\* outside 2xx, unparsable JSON) the available and the filtered list are
\* both the ten fallback areas and the research input is enabled; and
\* whenever the request has settled, failed or not, the loading flag is
\* cleared.
C12_FallbackAndLoadingCleared ==
    /\ (lastOp.op = "fetchResearchAreas" /\ lastOp.message # "") =>
          /\ availableResearchAreas = fallbackAreas
          /\ filteredResearchAreas = fallbackAreas
          /\ Len(availableResearchAreas) = 10
          /\ ~loadingResearchAreas
          /\ ResearchInputEnabled
    /\ ~fetchPending => ~loadingResearchAreas

\* The request was rejected by the network and the fallback is in place.
C12_Witness ==
    /\ lastOp.op = "fetchResearchAreas"
    /\ lastOp.message = "network"
    /\ availableResearchAreas = fallbackAreas
    /\ ~loadingResearchAreas

\* A stored tag: not empty, no white space at either end.
Trimmed(tag) == tag # <<>> /\ Trim(tag) = tag

AllTrimmed ==
    /\ \A i \in 1..Len(formData.research_interests) :
          Trimmed(formData.research_interests[i])
    /\ \A i \in 1..Len(formData.skills) : Trimmed(formData.skills[i])

\* A step that makes a tag list longer appends the trimmed value (the
\* clicked area for a pick, the input's text otherwise) and empties the
\* list's input.
AddAppendsTrimmed ==
    /\ Len(formData'.research_interests) > Len(formData.research_interests) =>
          LET value == IF lastOp'.op = "pickResearchArea" THEN lastOp'.text
                       ELSE currentInterest
          IN  /\ formData'.research_interests =
                    Append(formData.research_interests, Trim(value))
              /\ currentInterest' = <<>>
    /\ Len(formData'.skills) > Len(formData.skills) =>
          /\ formData'.skills = Append(formData.skills, Trim(currentSkill))
          /\ currentSkill' = <<>>

\* C19: every stored research interest and skill is non-empty and has no
\* leading or trailing white space, whatever was typed, picked or removed;
\* a successful add appends the trimmed value at the end of its list and
\* clears the corresponding input.
C19_TagsTrimmed == []AllTrimmed /\ [][AddAppendsTrimmed]_vars

\* The area " b" was picked from the dropdown and stored as "b".
C19_Witness ==
    /\ lastOp.op = "pickResearchArea"
    /\ lastOp.text = <<" ", "b">>
    /\ Len(formData.research_interests) > 0
    /\ formData.research_interests[Len(formData.research_interests)] = <<"b">>
    /\ currentInterest = <<>>
    /\ Len(formData.skills) > 0

(***************************************************************************)
(* Claims about the autocomplete dropdown (SpecAuto)                       *)
(***************************************************************************)
\* The available areas that contain the input, case ignored, in order.
AreasContainingInput ==
    LET Contains(area) ==
            Includes(ToLowerCase(area), ToLowerCase(currentInterest))
    IN  SelectSeq(availableResearchAreas, Contains)

\* C18 (as stated): whenever the dropdown is visible, the filtered list is
\* exactly the available areas that contain the current input as a
\* case-insensitive substring, in the order of the available list.
C18_Original ==
    DropdownVisible => filteredResearchAreas = AreasContainingInput

\* C18 (amended): whenever the dropdown is visible, the filtered list is
\* the whole available list if the input is white space only, and
\* otherwise exactly the available areas that contain the input as a
\* case-insensitive substring, in the order of the available list.
C18_FilteredMatchesInput ==
    DropdownVisible =>
        filteredResearchAreas =
            IF Trim(currentInterest) = <<>> THEN availableResearchAreas
            ELSE AreasContainingInput

\* Typed "B" against the server's list: the dropdown shows the three
\* areas "B", "b" and " b", all of which contain it when case is ignored.
C18_Witness ==
    /\ DropdownVisible
    /\ currentInterest = <<"B">>
    /\ Len(availableResearchAreas) = 3
    /\ filteredResearchAreas = availableResearchAreas
    /\ Len(formData.research_interests) > 0

(***************************************************************************)
(* Claims about the template modal (SpecTemplates)                         *)
(***************************************************************************)
\* C20: once every outstanding /get_templates response has been delivered,
\* in whatever order, the textarea holds the body (served or edited) of
\* the template selected in the dropdown, and a save made then uploads the
\* selected name with that template's own text.
C20_TextareaIsSelectedTemplate ==
    /\ (pendingGets = <<>> /\ templateOptions # <<>>) =>
          templateContent.of = templateSelected
    /\ (lastUpload.sent /\ lastUpload.settled) =>
          lastUpload.template_content.of = lastUpload.template_name

====
